---- MODULE Spec2Model ----
(***************************************************************************)
(* A model of the `ls` binary (src/bin/ls.rs) and of the table renderer    *)
(* (src/table/table.rs) of coreutils-learning.                             *)
(*                                                                         *)
(* Strings are sequences of one-character strings, so that chars(), len(), *)
(* starts_with, ends_with, byte-wise comparison and padding are computed   *)
(* the way the Rust code computes them.                                    *)
(*                                                                         *)
(* The file system does not change during a run.  What the crates users,   *)
(* humansize and time do is modelled at the places main calls them.        *)
(***************************************************************************)
EXTENDS Integers, Sequences, FiniteSets, TLC

VARIABLES
    pc,         \* position of the running program
    cli,        \* the parsed command line (struct Cli)
    fs,         \* the environment: which paths fail, which ids resolve
    paths,      \* main's `paths`: the Vec<LSFile>
    idx,        \* number of entries already consumed by the render loop
    rows,       \* the TableRow values collected so far (long format)
    out,        \* everything written to standard output
    chmodIn,    \* ChMod(u32): the mode handed to Display
    chmodOut,   \* the string ChMod's Display wrote
    ordIn,      \* three LSFile values handed to Ord::cmp
    ordOut,     \* the results of the comparisons
    tblIn,      \* a Table: rows and columns
    tblOut      \* the string Table's Display wrote

vars == <<pc, cli, fs, paths, idx, rows, out,
          chmodIn, chmodOut, ordIn, ordOut, tblIn, tblOut>>

lsVars    == <<cli, fs, paths, idx, rows, out>>
chmodVars == <<chmodIn, chmodOut>>
ordVars   == <<ordIn, ordOut>>
tblVars   == <<tblIn, tblOut>>

\* Option (and Result, whose error is never looked at): None is the empty
\* sequence, Some(x) the sequence of x alone.
None == <<>>
Some(x) == <<x>>
Unwrap(o) == o[1]

(***************************************************************************)
(* Characters and strings                                                  *)
(***************************************************************************)

\* The printable ASCII characters in code order, from 32 (space) to 95 (_).
AsciiLow ==
    << " ", "!", "\"", "#", "$", "%", "&", "'", "(", ")", "*", "+", ",", "-",
       ".", "/", "0", "1", "2", "3", "4", "5", "6", "7", "8", "9", ":", ";",
       "<", "=", ">", "?", "@", "A", "B", "C", "D", "E", "F", "G", "H", "I",
       "J", "K", "L", "M", "N", "O", "P", "Q", "R", "S", "T", "U", "V", "W",
       "X", "Y", "Z", "[", "\\", "]", "^", "_" >>

\* The lower-case letters and what follows them, from 97 (a) to 126 (~).
AsciiHigh ==
    << "a", "b", "c", "d", "e", "f", "g", "h", "i", "j", "k", "l", "m", "n",
       "o", "p", "q", "r", "s", "t", "u", "v", "w", "x", "y", "z", "{", "|",
       "}", "~" >>

\* The character U+00E9 (e with acute accent), the one non-ASCII character
\* of the model.
EAcute == "U+00E9"

\* The code of each ASCII character of the two tables.
AsciiCodes ==
    [c \in {AsciiLow[k] : k \in 1..Len(AsciiLow)}
            \cup {AsciiHigh[k] : k \in 1..Len(AsciiHigh)} |->
        IF \E k \in 1..Len(AsciiLow) : AsciiLow[k] = c
        THEN 31 + (CHOOSE k \in 1..Len(AsciiLow) : AsciiLow[k] = c)
        ELSE 96 + (CHOOSE k \in 1..Len(AsciiHigh) : AsciiHigh[k] = c)]

AsciiCode(c) == AsciiCodes[c]

\* The UTF-8 encoding of one character: one byte for ASCII, two for U+00E9.
Utf8(c) ==
    IF c = "\n" THEN <<10>>
    ELSE IF c = EAcute THEN <<195, 169>>
    ELSE <<AsciiCode(c)>>

RECURSIVE Bytes(_)
\* str::as_bytes: the bytes of a string.
Bytes(s) == IF s = <<>> THEN <<>> ELSE Utf8(Head(s)) \o Bytes(Tail(s))

\* str::len: the length in bytes.
ByteLen(s) == Len(Bytes(s))

\* str::chars().count(): the length in characters.
CharCount(s) == Len(s)

RECURSIVE BytesCmp(_, _)
\* Ord for [u8]: lexicographic, a proper prefix sorts first.
BytesCmp(x, y) ==
    IF x = <<>> /\ y = <<>> THEN "Equal"
    ELSE IF x = <<>> THEN "Less"
    ELSE IF y = <<>> THEN "Greater"
    ELSE IF Head(x) < Head(y) THEN "Less"
    ELSE IF Head(x) > Head(y) THEN "Greater"
    ELSE BytesCmp(Tail(x), Tail(y))

\* Ord for String: the comparison of the bytes.
StrCmp(s, t) == BytesCmp(Bytes(s), Bytes(t))

StartsWith(s, c) == Len(s) >= 1 /\ s[1] = c
EndsWith(s, c)   == Len(s) >= 1 /\ s[Len(s)] = c

RECURSIVE Concat(_)
\* The concatenation of a sequence of strings.
Concat(ss) == IF ss = <<>> THEN <<>> ELSE Head(ss) \o Concat(Tail(ss))

Spaces(n) == [k \in 1..n |-> " "]

DigitChar(d) == AsciiLow[17 + d]

RECURSIVE Radix(_, _)
\* An unsigned integer written in base b, no leading zeros ("0" for zero).
Radix(n, b) ==
    IF n < b THEN <<DigitChar(n)>>
    ELSE Radix(n \div b, b) \o <<DigitChar(n % b)>>

\* u32/u64 to_string.
Decimal(n) == Radix(n, 10)

\* format!("{:o}", n)
Octal(n) == Radix(n, 8)

\* char::to_uppercase, for the characters the size strings hold.
UpperChar(c) ==
    IF c \in {AsciiHigh[k] : k \in 1..26}
    THEN AsciiLow[AsciiCode(c) - 63]
    ELSE c

ToUppercase(s) == [k \in 1..Len(s) |-> UpperChar(s[k])]

(***************************************************************************)
(* ChMod                                                                   *)
(***************************************************************************)

\* The mask of the permission bits, 0o777.
PermMask == 511

\* The match of ChMod::fmt: one octal digit character to its triad.
Triad(c) ==
    CASE c = "1" -> <<"-", "-", "x">>
      [] c = "2" -> <<"-", "w", "-">>
      [] c = "3" -> <<"-", "w", "x">>
      [] c = "4" -> <<"r", "-", "-">>
      [] c = "5" -> <<"r", "-", "x">>
      [] c = "6" -> <<"r", "w", "-">>
      [] c = "7" -> <<"r", "w", "x">>
      [] OTHER   -> <<"-", "-", "-">>

\* self.0 & 0o777: the low nine bits.
LowBits(m) == m % (PermMask + 1)

\* ChMod's Display: the octal digits of the low nine bits, each mapped to its
\* triad, joined.
ChModFmt(m) ==
    LET digits == Octal(LowBits(m))
    IN  Concat([k \in 1..Len(digits) |-> Triad(digits[k])])

(***************************************************************************)
(* Table (src/table/table.rs)                                              *)
(***************************************************************************)

Max(a, b) == IF a >= b THEN a ELSE b

RECURSIVE FoldWidth(_, _, _)
\* The fold of Table::fmt for one column: the maximum over the rows of
\* format!("{}", cell).len(), starting from `acc`.
FoldWidth(rs, col, acc) ==
    IF rs = <<>> THEN acc
    ELSE FoldWidth(Tail(rs), col, Max(acc, ByteLen(Head(rs)[col])))

\* column_sizes
ColumnSizes(t) == [col \in 1..Len(t.columns) |-> FoldWidth(t.rows, col, 0)]

\* format!("{:<width$}"), "{:^width$}" and "{:>width$}" of a string: no
\* padding when it has at least `width` characters, else the missing
\* characters as spaces on the right, on both sides (the odd one on the
\* right) or on the left.
Pad(s, width, alignment) ==
    IF CharCount(s) >= width THEN s
    ELSE LET diff == width - CharCount(s)
         IN  CASE alignment = "Left"   -> s \o Spaces(diff)
               [] alignment = "Center" ->
                      Spaces(diff \div 2) \o s \o Spaces((diff + 1) \div 2)
               [] alignment = "Right"  -> Spaces(diff) \o s

\* One pass of the inner loop of Table::fmt: the padded cell, then a space.
WriteCell(cell, width, alignment) == Pad(cell, width, alignment) \o <<" ">>

\* One pass of the outer loop: every column's cell, then "\n".
WriteRow(t, sizes, row) ==
    Concat([col \in 1..Len(t.columns) |->
               WriteCell(row[col], sizes[col], t.columns[col])]) \o <<"\n">>

\* Table's Display.
TableFmt(t) ==
    LET column_sizes == ColumnSizes(t)
    IN  Concat([r \in 1..Len(t.rows) |-> WriteRow(t, column_sizes, t.rows[r])])

(***************************************************************************)
(* The environment: a small file system and the identity databases.       *)
(* A path is the sequence of its components.                               *)
(***************************************************************************)

Dot    == <<".">>
Alpha  == <<"a", "l", "p", "h", "a", ".", "t", "x", "t">>
Hidden == <<".", "h", "i", "d", "d", "e", "n">>
Zbeta  == <<"z", "b", "e", "t", "a">>
Old    == <<"o", "l", "d", "~">>
Ghost  == <<"g", "h", "o", "s", "t">>
Locked == <<"l", "o", "c", "k", "e", "d">>
Sub    == <<"s", "u", "b">>
Nope   == <<"n", "o", "p", "e">>

\* The names that are directories; `locked` is one that cannot be read.
DirNames == {Dot, Zbeta, Locked, Sub}

\* Path::is_dir (it follows links and is false for what does not exist).
PathIsDir(p) == p[Len(p)] \in DirNames

\* Path::read_dir: None when the directory cannot be opened, else the
\* io::Result of each entry, in the order the system gives them: the path of
\* an Ok entry, None for an Err one.
ReadDir(p) ==
    CASE p[Len(p)] = Dot ->
             Some([k \in 1..6 |->
                 Some(p \o << <<Zbeta, Ghost, Alpha, Hidden, Old, Locked>>[k] >>)])
      [] p[Len(p)] = Zbeta ->
             Some(<< Some(p \o <<Sub>>), None, Some(p \o <<Alpha>>) >>)
      [] p[Len(p)] = Sub   -> Some(<< >>)
      [] OTHER -> None

\* What stat gives for each name: mode, link count, owner, group, size and
\* the modification time as <<month, day, hour, minute>> of local time.
StatOf(name) ==
    CASE name = Alpha ->
             [mode |-> 33188, nlink |-> 1, uid |-> 1000, gid |-> 1000,
              size |-> 2048, mtime |-> <<1, 5, 9, 30>>]
      [] name = Hidden ->
             [mode |-> 33152, nlink |-> 1, uid |-> 0, gid |-> 0,
              size |-> 5, mtime |-> <<12, 31, 23, 59>>]
      [] name = Old ->
             [mode |-> 32768, nlink |-> 1, uid |-> 0, gid |-> 0,
              size |-> 0, mtime |-> <<3, 9, 0, 0>>]
      [] name = Ghost ->
             [mode |-> 33261, nlink |-> 2, uid |-> 0, gid |-> 1000,
              size |-> 1280, mtime |-> <<7, 14, 16, 5>>]
      [] name = Locked ->
             [mode |-> 16585, nlink |-> 2, uid |-> 0, gid |-> 0,
              size |-> 4096, mtime |-> <<2, 28, 12, 0>>]
      [] OTHER ->
             [mode |-> 16877, nlink |-> 2, uid |-> 1000, gid |-> 0,
              size |-> 4096, mtime |-> <<11, 2, 8, 15>>]

\* Path::metadata (it follows links): None for a path that does not exist
\* and for a link whose target is gone. `before_epoch` tells whether the
\* modification time lies before 1970.
PathMetadata(p, env) ==
    IF p[Len(p)] = Nope \/ p[Len(p)] \in env.broken THEN None
    ELSE Some([stat |-> StatOf(p[Len(p)]), before_epoch |-> p[Len(p)] \in env.ancient])

\* users::get_user_by_uid, then name(): None for an id the database lacks.
GetUserByUid(uid, env) ==
    IF uid \in env.noUser THEN None
    ELSE IF uid = 0 THEN Some(<<"r", "o", "o", "t">>)
    ELSE Some(<<"d", "e", "v">>)

\* users::get_group_by_gid, then name().
GetGroupByGid(gid, env) ==
    IF gid \in env.noGroup THEN None
    ELSE IF gid = 0 THEN Some(<<"r", "o", "o", "t">>)
    ELSE Some(<<"s", "t", "a", "f", "f">>)

(***************************************************************************)
(* LSFile                                                                  *)
(***************************************************************************)

\* LSFile::new
NewLSFile(p) == [path |-> p, metadata |-> None]

\* LSFile::load_metadata
LoadMetadata(f, env) == [f EXCEPT !.metadata = PathMetadata(f.path, env)]

\* LSFile::is_dir
IsDir(f) == PathIsDir(f.path)

\* Path::file_name: None for a path that ends in `.` or `..`.
PathFileName(p) ==
    IF p[Len(p)] \in {<<".">>, <<".", ".">>} THEN None ELSE Some(p[Len(p)])

\* LSFile::file_name
FileName(f) ==
    IF PathFileName(f.path) = None THEN <<>> ELSE Unwrap(PathFileName(f.path))

RECURSIVE PathString(_)
\* Path::to_string_lossy: the components joined by `/`.
PathString(p) ==
    IF Len(p) = 1 THEN p[1]
    ELSE PathString(SubSeq(p, 1, Len(p) - 1)) \o <<"/">> \o p[Len(p)]

\* PartialEq for LSFile
LSFileEq(a, b) == a.path = b.path

\* Ord for LSFile
LSFileCmp(a, b, groupDirectoriesFirst) ==
    IF groupDirectoriesFirst /\ IsDir(a) /\ ~IsDir(b) THEN "Less"
    ELSE IF groupDirectoriesFirst /\ IsDir(b) /\ ~IsDir(a) THEN "Greater"
    ELSE StrCmp(FileName(a), FileName(b))

(***************************************************************************)
(* From<LSFile> for TableRow<String, 7>                                    *)
(***************************************************************************)

\* The divider of humansize's BINARY base.
Kibi == 1024

RECURSIVE UnitIndex(_)
\* humansize: how many times the size is divided by 1024 before it is
\* below 1024.
UnitIndex(n) == IF n < Kibi THEN 0 ELSE 1 + UnitIndex(n \div Kibi)

RECURSIVE Pow(_, _)
Pow(b, e) == IF e = 0 THEN 1 ELSE b * Pow(b, e - 1)

\* format!("{:.1}", n / d) for integers n and d, n not a multiple of d:
\* the quotient rounded to one decimal place, ties to even.
OneDecimal(n, d) ==
    LET q == (n * 10) \div d
        r == (n * 10) % d
        t == IF 2 * r > d \/ (2 * r = d /\ q % 2 = 1) THEN q + 1 ELSE q
    IN  Decimal(t \div 10) \o <<".">> \o Decimal(t % 10)

\* humansize::format_size with BINARY, decimal_places(1),
\* space_after_value(false) and units(Kilo::Decimal): a size below 1024 in
\* bytes, else the scaled value (no decimals when it is whole) and the
\* decimal unit.
FormatSize(n) ==
    LET k == UnitIndex(n)
        d == Pow(Kibi, k)
    IN  IF k = 0 THEN Decimal(n) \o <<"B">>
        ELSE (IF n % d = 0 THEN Decimal(n \div d) ELSE OneDecimal(n, d))
             \o << <<"k", "M", "G">>[k], "B" >>

\* String::pop
Pop(s) == IF s = <<>> THEN s ELSE SubSeq(s, 1, Len(s) - 1)

\* The size cell of a row.
SizeCell(f, humanReadable) ==
    IF f.metadata = None THEN <<"0">>
    ELSE IF humanReadable
         THEN ToUppercase(Pop(FormatSize(Unwrap(f.metadata).stat.size)))
    ELSE Decimal(Unwrap(f.metadata).stat.size)

MonthShort ==
    << <<"J", "a", "n">>, <<"F", "e", "b">>, <<"M", "a", "r">>,
       <<"A", "p", "r">>, <<"M", "a", "y">>, <<"J", "u", "n">>,
       <<"J", "u", "l">>, <<"A", "u", "g">>, <<"S", "e", "p">>,
       <<"O", "c", "t">>, <<"N", "o", "v">>, <<"D", "e", "c">> >>

\* Two digits, zero padded.
TwoDigits(n) == <<DigitChar(n \div 10), DigitChar(n % 10)>>

\* "[month repr:short] [day padding:zero] [hour]:[minute]" of a local time
\* <<month, day, hour, minute>>.
FormatModified(t) ==
    MonthShort[t[1]] \o <<" ">> \o TwoDigits(t[2]) \o <<" ">>
        \o TwoDigits(t[3]) \o <<":">> \o TwoDigits(t[4])

\* Whether LSFile::modified panics: duration_since(UNIX_EPOCH).unwrap() on a
\* modification time before the epoch.
ModifiedPanics(f) == f.metadata # None /\ Unwrap(f.metadata).before_epoch

\* Whether the conversion panics: an unwrap of None, of mode() and the other
\* accessors when the metadata is absent, of get_user_by_uid and of
\* get_group_by_gid when the id has no entry; or modified() panics.
RowPanics(f, env) ==
    \/ f.metadata = None
    \/ GetUserByUid(Unwrap(f.metadata).stat.uid, env) = None
    \/ GetGroupByGid(Unwrap(f.metadata).stat.gid, env) = None
    \/ ModifiedPanics(f)

\* The seven cells of the row of an entry whose conversion does not panic.
RowOf(f, humanReadable, env) ==
    << ChModFmt(Unwrap(f.metadata).stat.mode),
       Decimal(Unwrap(f.metadata).stat.nlink),
       Unwrap(GetUserByUid(Unwrap(f.metadata).stat.uid, env)),
       Unwrap(GetGroupByGid(Unwrap(f.metadata).stat.gid, env)),
       SizeCell(f, humanReadable),
       FormatModified(Unwrap(f.metadata).stat.mtime),
       FileName(f) >>

\* The alignments main gives the seven columns.
LsColumns == <<"Left", "Left", "Left", "Left", "Right", "Left", "Left">>

(***************************************************************************)
(* main                                                                    *)
(***************************************************************************)

\* cli.path.clone().unwrap_or(vec![Path::new(".").to_path_buf()])
InputPaths(c) == IF c.path = None THEN << <<Dot>> >> ELSE Unwrap(c.path)

\* Whether read_dir(...).expect("Could not read dir") panics for some input
\* path: the path is a directory and cannot be read.
ReadDirPanics(c) ==
    \E k \in 1..Len(InputPaths(c)) :
        PathIsDir(InputPaths(c)[k]) /\ ReadDir(InputPaths(c)[k]) = None

\* The closure of flat_map: the children of a directory whose entries are
\* Ok, the path itself for anything else.
Expand(p) ==
    LET IsOk(e) == e # None
        oks == SelectSeq(Unwrap(ReadDir(p)), IsOk)
    IN  IF PathIsDir(p) THEN [k \in 1..Len(oks) |-> Unwrap(oks[k])] ELSE <<p>>

\* The paths flat_map yields.
Discovered(c) ==
    Concat([k \in 1..Len(InputPaths(c)) |-> Expand(InputPaths(c)[k])])

\* A variant of the first filter that tests the whole path instead of the
\* file name.
KeepHiddenOnPath(p, c) == c.all \/ ~StartsWith(PathString(p), ".")

\* The first filter: all, or a file name that does not start with `.`.
KeepHidden(p, c) ==
    c.all \/ ~(PathFileName(p) # None /\ StartsWith(Unwrap(PathFileName(p)), "."))

\* The second filter: the path does not end with `~` when backups are
\* ignored.
KeepBackup(p, c) == ~c.ignore_backups \/ ~EndsWith(PathString(p), "~")

\* The third filter: a directory when only directories are listed.
KeepDirectory(p, c) == ~c.directory \/ PathIsDir(p)

\* The three filters, then LSFile::new for what is left.
Collected(c) ==
    LET Keep(p) == KeepHidden(p, c) /\ KeepBackup(p, c) /\ KeepDirectory(p, c)
        kept == SelectSeq(Discovered(c), Keep)
    IN  [k \in 1..Len(kept) |-> NewLSFile(kept[k])]

\* The place of x in a sorted sequence: after every element that does not
\* compare greater than it.
InsertSorted(sorted, x, g) ==
    LET n == Cardinality({k \in 1..Len(sorted) : LSFileCmp(sorted[k], x, g) # "Greater"})
    IN  SubSeq(sorted, 1, n) \o <<x>> \o SubSeq(sorted, n + 1, Len(sorted))

RECURSIVE SortFiles(_, _)
\* paths.sort(): the stable sort by Ord for LSFile.
SortFiles(files, g) ==
    IF files = <<>> THEN <<>>
    ELSE InsertSorted(SortFiles(SubSeq(files, 1, Len(files) - 1), g),
                      files[Len(files)], g)

\* The pipeline up to collect(): a panic when a directory cannot be read.
Collect ==
    /\ pc = "start"
    /\ IF ReadDirPanics(cli)
       THEN pc' = "aborted" /\ UNCHANGED paths
       ELSE pc' = "collected" /\ paths' = Collected(cli)
    /\ UNCHANGED <<cli, fs, idx, rows, out, chmodVars, ordVars, tblVars>>

\* paths.sort(), then the choice of the format.
Sort ==
    /\ pc = "collected"
    /\ paths' = SortFiles(paths, cli.group_directories_first)
    /\ pc' = IF cli.long THEN "long" ELSE "short"
    /\ UNCHANGED <<cli, fs, idx, rows, out, chmodVars, ordVars, tblVars>>

\* One pass of the closure of the long format: load_metadata, then into().
LongRow ==
    /\ pc = "long"
    /\ idx < Len(paths)
    /\ LET f == LoadMetadata(paths[idx + 1], fs)
       IN  /\ paths' = [paths EXCEPT ![idx + 1] = f]
           /\ IF RowPanics(f, fs)
              THEN pc' = "aborted" /\ UNCHANGED <<idx, rows>>
              ELSE /\ pc' = pc
                   /\ idx' = idx + 1
                   /\ rows' = Append(rows, RowOf(f, cli.human_readable, fs))
    /\ UNCHANGED <<cli, fs, out, chmodVars, ordVars, tblVars>>

\* print!("{}", table)
PrintTable ==
    /\ pc = "long"
    /\ idx = Len(paths)
    /\ out' = out \o TableFmt([rows |-> rows, columns |-> LsColumns])
    /\ pc' = "done"
    /\ UNCHANGED <<cli, fs, paths, idx, rows, chmodVars, ordVars, tblVars>>

\* One pass of the loop of the short format: load_metadata, then the name
\* and a space.
ShortEntry ==
    /\ pc = "short"
    /\ idx < Len(paths)
    /\ LET f == LoadMetadata(paths[idx + 1], fs)
       IN  /\ paths' = [paths EXCEPT ![idx + 1] = f]
           /\ out' = out \o FileName(f) \o <<" ">>
    /\ idx' = idx + 1
    /\ UNCHANGED <<pc, cli, fs, rows, chmodVars, ordVars, tblVars>>

\* println!() when the format is not the long one.
Println ==
    /\ pc = "short"
    /\ idx = Len(paths)
    /\ out' = out \o <<"\n">>
    /\ pc' = "done"
    /\ UNCHANGED <<cli, fs, paths, idx, rows, chmodVars, ordVars, tblVars>>

\* The most paths on a command line.
MaxArgs == 2

\* The paths a command line names.
ArgPaths == {<<Dot>>, <<Zbeta>>, <<Alpha>>, <<Hidden>>, <<Locked>>, <<Nope>>}

\* Cli::parse: no path at all, or one to MaxArgs of them, and the flags.
CliSet ==
    [path : {None} \cup {Some(a) : a \in UNION {[1..n -> ArgPaths] : n \in 1..MaxArgs}},
     all : BOOLEAN, long : BOOLEAN, human_readable : BOOLEAN,
     ignore_backups : BOOLEAN, directory : BOOLEAN,
     group_directories_first : BOOLEAN]

\* The environments: `ghost` is a link whose target may be gone or may have
\* a modification time before 1970, and the id 1000 may be missing from the
\* user or from the group database.
EnvSet ==
    {e \in [broken : SUBSET {Ghost}, ancient : SUBSET {Ghost},
             noUser : SUBSET {1000}, noGroup : SUBSET {1000}] :
        e.broken \cap e.ancient = {}}

\* The values of the variables a specification does not use.
IdleLs    == cli = None /\ fs = None /\ paths = <<>> /\ idx = 0 /\ rows = <<>> /\ out = <<>>
IdleChMod == chmodIn = 0 /\ chmodOut = <<>>
IdleOrd   == ordIn = None /\ ordOut = None
IdleTbl   == tblIn = None /\ tblOut = <<>>

Init ==
    /\ pc = "start"
    /\ cli \in CliSet
    /\ fs \in EnvSet
    /\ paths = <<>>
    /\ idx = 0
    /\ rows = <<>>
    /\ out = <<>>
    /\ IdleChMod /\ IdleOrd /\ IdleTbl

Next == Collect \/ Sort \/ LongRow \/ PrintTable \/ ShortEntry \/ Println

\* One run of ls.
Spec == Init /\ [][Next]_vars

(***************************************************************************)
(* ChMod's Display on its own                                              *)
(***************************************************************************)

\* The modes: every value of the nine permission bits, and some with the
\* file type, setuid and higher bits set.
Modes == 0..PermMask \cup {32768, 33188, 16877, 35309, 16384, 2147483647, 2147483591}

InitChMod ==
    /\ pc = "start"
    /\ chmodIn \in Modes
    /\ chmodOut = <<>>
    /\ IdleLs /\ IdleOrd /\ IdleTbl

\* format!("{}", ChMod(mode))
Fmt ==
    /\ pc = "start"
    /\ chmodOut' = ChModFmt(chmodIn)
    /\ pc' = "done"
    /\ UNCHANGED <<chmodIn, lsVars, ordVars, tblVars>>

NextChMod == Fmt

SpecChMod == InitChMod /\ [][NextChMod]_vars

\* The octal digit of the owner (k = 2), the group (k = 1) or the others
\* (k = 0) in the low nine bits of a mode.
PermDigit(m, k) == ((m % 512) \div Pow(8, k)) % 8

\* The eight triads.
Triads ==
    { <<"-", "-", "-">>, <<"-", "-", "x">>, <<"-", "w", "-">>, <<"-", "w", "x">>,
      <<"r", "-", "-">>, <<"r", "-", "x">>, <<"r", "w", "-">>, <<"r", "w", "x">> }

\* The triad of an octal digit: r for 4, w for 2, x for 1.
TriadOfDigit(d) ==
    << IF (d \div 4) % 2 = 1 THEN "r" ELSE "-",
       IF (d \div 2) % 2 = 1 THEN "w" ELSE "-",
       IF d % 2 = 1 THEN "x" ELSE "-" >>

\* C1: for every mode, the string ChMod's Display writes has exactly nine
\* characters: the triad of the owner digit, then of the group digit, then
\* of the digit of the others, each one of the eight triads.
ClaimC1 ==
    pc = "done" =>
        /\ Len(chmodOut) = 9
        /\ chmodOut = TriadOfDigit(PermDigit(chmodIn, 2))
                        \o TriadOfDigit(PermDigit(chmodIn, 1))
                        \o TriadOfDigit(PermDigit(chmodIn, 0))
        /\ \A k \in 0..2 : TriadOfDigit(PermDigit(chmodIn, k)) \in Triads

(***************************************************************************)
(* Ord for LSFile on its own                                               *)
(***************************************************************************)

\* The entries of one listing, that of `ls -a . zbeta`.
ListingFiles ==
    LET c == [path |-> Some(<< <<Dot>>, <<Zbeta>> >>), all |-> TRUE,
              long |-> FALSE, human_readable |-> FALSE, ignore_backups |-> FALSE,
              directory |-> FALSE, group_directories_first |-> FALSE]
    IN  {Collected(c)[k] : k \in 1..Len(Collected(c))}

InitOrd ==
    /\ pc = "start"
    /\ ordIn \in [a : ListingFiles, b : ListingFiles, c : ListingFiles,
                   group_directories_first : BOOLEAN]
    /\ ordOut = None
    /\ IdleLs /\ IdleChMod /\ IdleTbl

\* a.cmp(&b) for each pair of the three entries.
Compare ==
    /\ pc = "start"
    /\ LET g == ordIn.group_directories_first
       IN  ordOut' = Some([ab |-> LSFileCmp(ordIn.a, ordIn.b, g),
                           ba |-> LSFileCmp(ordIn.b, ordIn.a, g),
                           bc |-> LSFileCmp(ordIn.b, ordIn.c, g),
                           ac |-> LSFileCmp(ordIn.a, ordIn.c, g)])
    /\ pc' = "done"
    /\ UNCHANGED <<ordIn, lsVars, chmodVars, tblVars>>

NextOrd == Compare

SpecOrd == InitOrd /\ [][NextOrd]_vars

\* C4: the ordering of the entries of one listing is a strict total order:
\* cmp is Equal only for entries that are equal under ==, it is antisymmetric
\* and transitive; with group_directories_first every directory sorts before
\* every non-directory, and entries of the same directory-ness are ordered
\* by file name only.
ClaimC4 ==
    pc = "done" =>
        LET r == Unwrap(ordOut)
            a == ordIn.a
            b == ordIn.b
        IN  /\ r.ab = "Equal" => LSFileEq(a, b)
            /\ (r.ab = "Less") = (r.ba = "Greater")
            /\ (r.ab = "Less" /\ r.bc = "Less") => r.ac = "Less"
            /\ (ordIn.group_directories_first /\ IsDir(a) /\ ~IsDir(b))
                   => r.ab = "Less"
            /\ (IsDir(a) = IsDir(b) \/ ~ordIn.group_directories_first)
                   => r.ab = StrCmp(FileName(a), FileName(b))

(***************************************************************************)
(* Table's Display on its own                                              *)
(***************************************************************************)

\* The number of columns of the tables tried.
TableWidth == 2

\* The most rows of the tables tried.
MaxRows == 2

\* The cells: the empty string, two ASCII characters, one character of two
\* bytes.
Cells == {<<>>, <<"a", "b">>, <<EAcute>>}

Alignments == {"Left", "Center", "Right"}

InitTable ==
    /\ pc = "start"
    /\ tblIn \in [rows : UNION {[1..n -> [1..TableWidth -> Cells]] : n \in 0..MaxRows},
                   columns : [1..TableWidth -> Alignments]]
    /\ tblOut = <<>>
    /\ IdleLs /\ IdleChMod /\ IdleOrd

\* format!("{}", table)
Render ==
    /\ pc = "start"
    /\ tblOut' = TableFmt(tblIn)
    /\ pc' = "done"
    /\ UNCHANGED <<tblIn, lsVars, chmodVars, ordVars>>

NextTable == Render

SpecTable == InitTable /\ [][NextTable]_vars

\* The width of a column as the claim has it: the most characters of any
\* of its cells.
CharWidth(t, col) ==
    IF t.rows = <<>> THEN 0
    ELSE CHOOSE w \in {CharCount(t.rows[r][col]) : r \in 1..Len(t.rows)} :
             \A r \in 1..Len(t.rows) : CharCount(t.rows[r][col]) <= w

\* A cell padded with spaces to `width` characters.
PaddedTo(s, width, alignment) ==
    LET diff == width - CharCount(s)
    IN  CASE alignment = "Left"   -> s \o Spaces(diff)
          [] alignment = "Right"  -> Spaces(diff) \o s
          [] alignment = "Center" ->
                 Spaces(diff \div 2) \o s \o Spaces(diff - diff \div 2)

RECURSIVE JoinWith(_, _)
\* The strings of a sequence with `sep` between each two.
JoinWith(ss, sep) ==
    IF ss = <<>> THEN <<>>
    ELSE IF Len(ss) = 1 THEN ss[1]
    ELSE ss[1] \o sep \o JoinWith(Tail(ss), sep)

\* The line of a row as the claim has it.
ClaimedLine(t, row) ==
    JoinWith([col \in 1..Len(t.columns) |->
                 PaddedTo(row[col], CharWidth(t, col), t.columns[col])], <<" ">>)
        \o <<"\n">>

\* C9: the output of Table's Display is one line per row, in row order, each
\* the row's cells padded to the column's width (the most characters of any
\* cell of the column), a single space between adjacent columns and the
\* line terminator directly after the last padded cell.
ClaimC9 ==
    pc = "done" =>
        tblOut = Concat([r \in 1..Len(tblIn.rows) |-> ClaimedLine(tblIn, tblIn.rows[r])])

(***************************************************************************)
(* Claims about a run of ls                                                *)
(***************************************************************************)

\* The run is over: main returned, or a panic ended it.
Terminated == pc \in {"done", "aborted"}

\* The surviving entries are known: collect() returned.
Listed == pc \in {"collected", "long", "short", "done"} \/ (pc = "aborted" /\ ~ReadDirPanics(cli))

\* A user-supplied path that cannot be enumerated: it does not exist, or it
\* is a directory that cannot be read.
CannotEnumerate(p) ==
    \/ p[Len(p)] = Nope
    \/ PathIsDir(p) /\ ReadDir(p) = None

\* Every user-supplied path exists and, when a directory, can be read.
InputsFine ==
    \A k \in 1..Len(InputPaths(cli)) : ~CannotEnumerate(InputPaths(cli)[k])

\* The owner and group cells of a row when an id that does not resolve is
\* shown as the number.
OwnerOrId(m, env) ==
    IF GetUserByUid(m.uid, env) = None THEN Decimal(m.uid)
    ELSE Unwrap(GetUserByUid(m.uid, env))

GroupOrId(m, env) ==
    IF GetGroupByGid(m.gid, env) = None THEN Decimal(m.gid)
    ELSE Unwrap(GetGroupByGid(m.gid, env))

\* The row of an entry whose metadata loads, ids falling back to numbers.
DegradedRow(f, humanReadable, env) ==
    LET g == LoadMetadata(f, env)
        m == Unwrap(g.metadata).stat
    IN  << ChModFmt(m.mode), Decimal(m.nlink), OwnerOrId(m, env), GroupOrId(m, env),
           SizeCell(g, humanReadable), FormatModified(m.mtime), FileName(f) >>

\* The rows of the entries whose metadata loads, in the order of the entries.
DegradedRows(files, humanReadable, env) ==
    LET Loads(f) == PathMetadata(f.path, env) # None
        ok == SelectSeq(files, Loads)
    IN  [k \in 1..Len(ok) |-> DegradedRow(ok[k], humanReadable, env)]

\* The entries with no metadata loaded, as collect() left them.
Unloaded(files) == [k \in 1..Len(files) |-> NewLSFile(files[k].path)]

\* C2: in a long-format run (every user-supplied path fine, every id
\* resolving, every modification time after 1970), whichever entries fail to load their metadata, the run does
\* not abort and the table has exactly the rows of the entries whose
\* metadata loaded, in sort order.
ClaimC2 ==
    (cli.long /\ Listed /\ InputsFine /\ fs.noUser = {} /\ fs.noGroup = {}
        /\ fs.ancient = {}) =>
        /\ pc # "aborted"
        /\ pc = "done" =>
               /\ rows = DegradedRows(Unloaded(paths), cli.human_readable, fs)
               /\ out = TableFmt([rows |-> rows, columns |-> LsColumns])

\* C3: in a run that is not long-format no entry's metadata is ever loaded,
\* and the names printed depend on the command line alone.
ClaimC3 ==
    (~cli.long /\ Listed) =>
        /\ \A k \in 1..Len(paths) : paths[k].metadata = None
        /\ pc = "done" =>
               LET sorted == SortFiles(Collected(cli), cli.group_directories_first)
               IN  out = Concat([k \in 1..Len(sorted) |-> FileName(sorted[k]) \o <<" ">>])
                             \o <<"\n">>

\* C6: in a run that is not long-format (every user-supplied path fine) the
\* output is the file names of the surviving entries in sort order, each
\* followed by two spaces, then one newline.
ClaimC6 ==
    (~cli.long /\ InputsFine /\ pc = "done") =>
        out = Concat([k \in 1..Len(paths) |-> FileName(paths[k]) \o <<" ", " ">>])
                  \o <<"\n">>

\* C7: in a long-format run in which every entry's metadata loads (with a
\* modification time after 1970), an owner or group id that does not resolve
\* never aborts the run or removes a row: the row carries the number in that
\* column.
ClaimC7 ==
    (cli.long /\ Listed /\ fs.ancient = {}
        /\ \A k \in 1..Len(paths) : PathMetadata(paths[k].path, fs) # None) =>
        /\ pc # "aborted"
        /\ pc = "done" =>
               rows = DegradedRows(Unloaded(paths), cli.human_readable, fs)

\* C8: a run (in an environment where every id resolves, no link is broken
\* and no modification time lies before 1970) aborts if and only if some user-supplied path cannot be
\* enumerated; such a path is never listed as an ordinary entry; every other
\* run ends successfully.
ClaimC8 ==
    (Terminated /\ fs.broken = {} /\ fs.ancient = {} /\ fs.noUser = {}
        /\ fs.noGroup = {}) =>
        /\ (pc = "aborted") = ~InputsFine
        /\ pc = "done" => \A k \in 1..Len(paths) : ~CannotEnumerate(paths[k].path)

\* C10: with the directory option, every user-supplied path that is a
\* directory is listed under its own name, no child of it is, and every
\* entry listed is a directory.
ClaimC10 ==
    (cli.directory /\ pc = "done") =>
        /\ \A k \in 1..Len(InputPaths(cli)) :
               PathIsDir(InputPaths(cli)[k]) =>
                   \E j \in 1..Len(paths) : paths[j].path = InputPaths(cli)[k]
        /\ \A j \in 1..Len(paths) :
               /\ \E k \in 1..Len(InputPaths(cli)) : paths[j].path = InputPaths(cli)[k]
               /\ IsDir(paths[j])

\* The names the output shows: in the short format every word of it, in the
\* long format the last word of each line.
PrintedNames(s, long) ==
    LET IsSep(k) == s[k] \in {" ", "\n"}
        ends == {e \in 1..Len(s) : ~IsSep(e) /\ (e = Len(s) \/ IsSep(e + 1))}
        StartOf(e) == CHOOSE b \in 1..e :
                          /\ \A k \in b..e : ~IsSep(k)
                          /\ b = 1 \/ IsSep(b - 1)
        LastOfLine(e) == \E n \in (e + 1)..Len(s) :
                             s[n] = "\n" /\ \A k \in (e + 1)..(n - 1) : s[k] = " "
    IN  {SubSeq(s, StartOf(e), e) : e \in {x \in ends : long => LastOfLine(x)}}

\* The file name of a discovered path.
NameOf(p) == FileName(NewLSFile(p))

\* The paths discovered, as a set.
DiscoveredSet == {Discovered(cli)[k] : k \in 1..Len(Discovered(cli))}

\* C5: nothing is printed by a run that aborts, and in the output of a run
\* that ends successfully, for every discovered path: a file name that
\* starts with `.` is shown only when the all option is set, and a file
\* name that does not start with `.` is shown whenever the backup-suffix
\* and the directory-only filter keep the path.
TheoremC5 ==
    /\ pc = "aborted" => out = <<>>
    /\ pc = "done" =>
           LET shown == PrintedNames(out, cli.long)
           IN  \A p \in DiscoveredSet :
                   IF StartsWith(NameOf(p), ".")
                   THEN NameOf(p) \in shown => cli.all
                   ELSE (/\ ~cli.ignore_backups \/ ~EndsWith(NameOf(p), "~")
                         /\ ~cli.directory \/ PathIsDir(p))
                            => NameOf(p) \in shown

\* A long-format run without the all option ends successfully having
\* discovered both a name that starts with `.` and one that does not, and
\* shows the latter.
WitnessC5 ==
    /\ pc = "done"
    /\ cli.long /\ ~cli.all
    /\ \E p \in DiscoveredSet : StartsWith(NameOf(p), ".")
    /\ \E p \in DiscoveredSet :
           ~StartsWith(NameOf(p), ".") /\ NameOf(p) \in PrintedNames(out, cli.long)

====
